---- MODULE Spec2Model ----
(***************************************************************************)
(* Model of the UAPMP authentication service (backend/routes/auth.js):     *)
(* Register, Verify (POST body uid and GET link), Login, over the Mongoose *)
(* User collection, with requests interleaving at every await of a store   *)
(* operation.                                                              *)
(*                                                                         *)
(* Text values the code inspects character by character (emails, names,    *)
(* passwords) are sequences of one-character strings, so that toLowerCase, *)
(* the regular expressions and substr are computed and not assumed.        *)
(***************************************************************************)
EXTENDS Integers, Sequences, FiniteSets, TLC

\* ------------------------------------------------------------------ bounds
\* Number of ObjectIds the store hands out (accounts ever created).
MaxIds == 2
\* Number of clock advances; each advances Date.now() by TickMs.
MaxTicks == 2
\* Length of the longest password drawn from PolicyAlphabet.
MaxPwLen == 6

\* --------------------------------------------------------------- text
UpperChars == <<"A","B","C","D","E","F","G","H","I","J","K","L","M",
                "N","O","P","Q","R","S","T","U","V","W","X","Y","Z">>
LowerChars == <<"a","b","c","d","e","f","g","h","i","j","k","l","m",
                "n","o","p","q","r","s","t","u","v","w","x","y","z">>
DigitChars == {"0","1","2","3","4","5","6","7","8","9"}
Range(s) == {s[i] : i \in DOMAIN s}
Letters == Range(UpperChars) \cup Range(LowerChars)

\* String.prototype.toLowerCase, one character.
ToLowerChar(c) ==
  IF c \in Range(UpperChars)
  THEN LowerChars[CHOOSE i \in DOMAIN UpperChars : UpperChars[i] = c]
  ELSE c
\* toLowerCase leaving its argument as it is.
ToLowerCaseKeepsCase(s) == s
\* String.prototype.toLowerCase.
ToLowerCase(s) == [i \in DOMAIN s |-> ToLowerChar(s[i])]
\* String.prototype.startsWith.
StartsWith(s, pre) == Len(s) >= Len(pre) /\ SubSeq(s, 1, Len(pre)) = pre
\* substr taking start as a 1-indexed position.
SubstrOneBased(s, start, n) ==
  SubSeq(s, start, IF start + n - 1 > Len(s) THEN Len(s) ELSE start + n - 1)
\* String.prototype.substr(start, length), start 0-indexed.
Substr(s, start, n) ==
  SubSeq(s, start + 1, IF start + n > Len(s) THEN Len(s) ELSE start + n)
\* Index of the first occurrence of character c in s, 0 when absent.
IndexOfChar(s, c) ==
  IF c \in Range(s) THEN CHOOSE i \in DOMAIN s : s[i] = c /\ \A j \in 1..(i-1) : s[j] # c
  ELSE 0

\* ------------------------------------------------ validatePasswordStrength
\* The character class of the hasSpecial test.
SpecialChars == {"!","@","#","$","%","^","&","*","(",")",",",".","?","\"",":","{","}","|","<",">"}

\* validatePasswordStrength requiring more than 6 characters.
validatePasswordStrengthMinSeven(password) ==
  LET requirements ==
        [length     |-> Len(password) > 6,
         hasLetter  |-> \E i \in DOMAIN password : password[i] \in Letters,
         hasDigit   |-> \E i \in DOMAIN password : password[i] \in DigitChars,
         hasSpecial |-> \E i \in DOMAIN password : password[i] \in SpecialChars]
  IN [isStrong     |-> \A k \in DOMAIN requirements : requirements[k] = TRUE,
      requirements |-> requirements]

validatePasswordStrength(password) ==
  LET requirements ==
        [length     |-> Len(password) >= 6,
         hasLetter  |-> \E i \in DOMAIN password : password[i] \in Letters,
         hasDigit   |-> \E i \in DOMAIN password : password[i] \in DigitChars,
         hasSpecial |-> \E i \in DOMAIN password : password[i] \in SpecialChars]
  IN [isStrong     |-> \A k \in DOMAIN requirements : requirements[k] = TRUE,
      requirements |-> requirements]

\* ------------------------------------------------------------ Universities
CuEduEg == <<"c","u",".","e","d","u",".","e","g">>
Universities ==
  (CuEduEg :> [name |-> "Cairo University",
               subdomains |->
                 (<<"s","c","a">> :> "Faculty of Arts") @@
                 (<<"s","c","i">> :> "Faculty of Science") @@
                 (<<"e","n","g">> :> "Faculty of Engineering") @@
                 (<<"m","e","d">> :> "Faculty of Medicine") @@
                 (<<"d","e","n","t","i","s","t","r","y">> :> "Faculty of Dentistry") @@
                 (<<"p","h","a","r","m","a">> :> "Faculty of Pharmacy") @@
                 (<<"l","a","w">> :> "Faculty of Law") @@
                 (<<"f","o","c">> :> "Faculty of Commerce") @@
                 (<<"e","d","u">> :> "Faculty of Education") @@
                 (<<"a","g","r">> :> "Faculty of Agriculture") @@
                 (<<"v","e","t">> :> "Faculty of Veterinary Medicine") @@
                 (<<"p","t">> :> "Faculty of Physical Therapy") @@
                 (<<"f","c","i">> :> "Faculty of Computers & AI") @@
                 (<<"n","u","r","s","i","n","g">> :> "Faculty of Nursing") @@
                 (<<"m","a","s","s","c","o","m","m">> :> "Faculty of Mass Communication") @@
                 (<<"f","e","p","s">> :> "Faculty of Economics & Political Science") @@
                 (<<"d","a","r">> :> "Faculty of Dar Al-Ulum") @@
                 (<<"a","r","c","h">> :> "Faculty of Archaeology") @@
                 (<<"r","u","p">> :> "Faculty of Regional & Urban Planning")])

\* ------------------------------------------------ extractUserDataFromEmail
\* The character class of the local part, [a-zA-Z0-9._%+-].
LocalChars == Letters \cup DigitChars \cup {".","_","%","+","-"}
StdDot == <<"s","t","d",".">>
AllDigits(s) == \A i \in DOMAIN s : s[i] \in DigitChars

\* email.match(regex): the groups of
\*   /^([a-zA-Z0-9._%+-]+)@(?:(std)\.)?([^.]+)\.(cu\.edu\.eg)$/i
\* or matched = FALSE.  The local part cannot hold "@", so group 1 ends at the
\* first "@"; what follows must end in ".cu.edu.eg", and the host before that
\* suffix is either "std." and a dot-free token, or a dot-free token.
EmailMatch(email) ==
  LET at     == IndexOfChar(email, "@")
      local  == SubSeq(email, 1, at - 1)
      rest   == SubSeq(email, at + 1, Len(email))
      sufLen == Len(CuEduEg) + 1
      host   == SubSeq(rest, 1, Len(rest) - sufLen)
      suffix == SubSeq(rest, Len(rest) - sufLen + 1, Len(rest))
      isStd  == StartsWith(ToLowerCase(host), StdDot)
      token  == IF isStd THEN SubSeq(host, Len(StdDot) + 1, Len(host)) ELSE host
      none   == [matched |-> FALSE, prefix |-> <<>>, std |-> FALSE,
                 sub |-> <<>>, dom |-> <<>>]
  IN IF /\ at > 1
        /\ \A i \in DOMAIN local : local[i] \in LocalChars
        /\ Len(rest) > sufLen
        /\ ToLowerCase(suffix) = <<".">> \o CuEduEg
        /\ token # <<>>
        /\ "." \notin Range(token)
     THEN [matched |-> TRUE, prefix |-> local, std |-> isStd, sub |-> token,
           dom |-> SubSeq(suffix, 2, Len(suffix))]
     ELSE none

\* The result of extractUserDataFromEmail: ok = FALSE with the thrown error's
\* kind, or the resolved university, faculty, role and studentId (<<>> for null).
ResolveFail(kind) ==
  [ok |-> FALSE, error |-> kind, university |-> "", faculty |-> "",
   role |-> "", studentId |-> <<>>]

\* The property names an object literal inherits from Object.prototype that a
\* lower-cased token can spell, with their values as text: obj[key] finds them
\* when obj has no own property key.
ObjectPrototype ==
  (<<"c","o","n","s","t","r","u","c","t","o","r">> :> "function Object() { [native code] }") @@
  (<<"_","_","p","r","o","t","o","_","_">> :> "[object Object]")
\* obj[key] on an object literal whose values are text: "" for undefined.
PropertyGet(obj, key) ==
  IF key \in DOMAIN obj THEN obj[key]
  ELSE IF key \in DOMAIN ObjectPrototype THEN ObjectPrototype[key]
  ELSE ""

\* RoleOf ignoring the marker.
RoleOfAlwaysStudent(isStudent) == "student"
\* role: isStudent ? "student" : "instructor".
RoleOf(isStudent) == IF isStudent THEN "student" ELSE "instructor"

\* extractUserDataFromEmail with the module's Universities binding holding the
\* directory U.
ResolveIn(U, email) ==
  LET match       == EmailMatch(email)
      emailPrefix == match.prefix
      isStudent   == match.std
      subdomain   == ToLowerCase(match.sub)
      domain      == ToLowerCase(match.dom)
      faculty     == PropertyGet(U[domain].subdomains, subdomain)
  IN IF ~match.matched THEN ResolveFail("InvalidFormat")
     ELSE IF domain \notin DOMAIN U THEN ResolveFail("UnsupportedUniversity")
     ELSE IF faculty = "" THEN ResolveFail("UnsupportedFaculty")
     ELSE IF isStudent /\ ~(AllDigits(emailPrefix) /\ Len(emailPrefix) \in {9, 7})
          THEN ResolveFail("MalformedStudentPrefix")
     ELSE [ok |-> TRUE, error |-> "",
           university |-> U[domain].name,
           faculty    |-> faculty,
           role       |-> RoleOf(isStudent),
           studentId  |-> IF ~isStudent THEN <<>>
                          ELSE IF Len(emailPrefix) = 9 THEN Substr(emailPrefix, 2, 7)
                          ELSE emailPrefix]

extractUserDataFromEmail(email) == ResolveIn(Universities, email)

\* -------------------------------------------------------------- time
\* maxAgeMs of both verification handlers: 24 hours.
maxAgeMs == 24 * 60 * 60 * 1000

\* ----------------------------------------------------------- the store
Ids == 1..MaxIds
\* The clients: two, each with at most one request in flight, so that any two
\* requests can overlap.
Procs == {1, 2}

\* A document of the User collection (models/User.js); studentId <<>> when the
\* field is absent.  id 0 stands for "no document" (null).
NoUser ==
  [id |-> 0, fullName |-> <<>>, email |-> <<>>, studentId |-> <<>>,
   password |-> <<>>, role |-> "", university |-> "", college |-> "",
   isEmailVerified |-> FALSE, createdAt |-> 0]
NoToken == [id |-> 0, role |-> "", email |-> <<>>]

\* bcrypt.hash and bcrypt.compare: the digest determines the password.
BcryptHash(password) == <<"$","2","a","$">> \o password
BcryptCompare(password, digest) == digest = BcryptHash(password)

\* The schema's trim setter on fullName.
RECURSIVE TrimLeft(_)
TrimLeft(s) == IF s # <<>> /\ Head(s) = " " THEN TrimLeft(Tail(s)) ELSE s
RECURSIVE TrimRight(_)
TrimRight(s) ==
  IF s # <<>> /\ s[Len(s)] = " " THEN TrimRight(SubSeq(s, 1, Len(s) - 1)) ELSE s
Trim(s) == TrimRight(TrimLeft(s))

\* DuplicateKey with the unique index on email missing.
DuplicateKeyStudentIdOnly(us, doc) ==
  IF doc.studentId # <<>> /\
     \E i \in Ids : us[i].id # 0 /\ us[i].studentId = doc.studentId
  THEN "studentId"
  ELSE ""

\* DuplicateKey with the unique index on studentId missing.
DuplicateKeyEmailOnly(us, doc) ==
  IF \E i \in Ids : us[i].id # 0 /\ us[i].email = doc.email THEN "email" ELSE ""

\* DuplicateKey with the index on studentId not sparse: a document without the
\* field is indexed under the missing value.
DuplicateKeyNotSparse(us, doc) ==
  IF \E i \in Ids : us[i].id # 0 /\ us[i].email = doc.email THEN "email"
  ELSE IF \E i \in Ids : us[i].id # 0 /\ us[i].studentId = doc.studentId
       THEN "studentId"
  ELSE ""

\* The unique index that an insert of doc into the collection us would violate:
\* "email" (unique), "studentId" (unique, sparse: only documents that have the
\* field are indexed), or "" when there is no conflict.
DuplicateKey(us, doc) ==
  IF \E i \in Ids : us[i].id # 0 /\ us[i].email = doc.email THEN "email"
  ELSE IF doc.studentId # <<>> /\
          \E i \in Ids : us[i].id # 0 /\ us[i].studentId = doc.studentId
       THEN "studentId"
  ELSE ""

\* NewDocument without the timestamps option: createdAt is not set.
NewDocumentNoTimestamps(payload, id, t) ==
  [payload EXCEPT !.id = id,
                  !.fullName = Trim(payload.fullName),
                  !.email = ToLowerCase(payload.email),
                  !.createdAt = 0]
\* The document User.create(payload) inserts under _id id at time t: the schema
\* setters (trim, lowercase) and the timestamps option applied.
NewDocument(payload, id, t) ==
  [payload EXCEPT !.id = id,
                  !.fullName = Trim(payload.fullName),
                  !.email = ToLowerCase(payload.email),
                  !.createdAt = t]

\* StoreCreate as an upsert by email: a payload whose email is taken replaces
\* the stored document's fields.
StoreCreateUpsert(us, payload, id, t) ==
  IF \E i \in Ids : us[i].id # 0 /\ us[i].email = ToLowerCase(payload.email)
  THEN LET j == CHOOSE i \in Ids : us[i].id # 0 /\ us[i].email = ToLowerCase(payload.email)
       IN [us EXCEPT ![j] = NewDocument(payload, j, t)]
  ELSE [us EXCEPT ![id] = NewDocument(payload, id, t)]

\* User.create(payload) with _id id at time t: the collection afterwards.  The
\* insert takes place unless a unique index rejects it (error code 11000).
StoreCreate(us, payload, id, t) ==
  IF DuplicateKey(us, NewDocument(payload, id, t)) # "" THEN us
  ELSE [us EXCEPT ![id] = NewDocument(payload, id, t)]

\* User.findById.
StoreFindById(us, uid) == IF uid \in Ids THEN us[uid] ELSE NoUser

\* User.findOne({ email }).
StoreFindOne(us, email) ==
  IF \E i \in Ids : us[i].id # 0 /\ us[i].email = email
  THEN us[CHOOSE i \in Ids : us[i].id # 0 /\ us[i].email = email]
  ELSE NoUser

\* User.deleteOne({ _id }): the filter names the id only.
StoreDeleteOne(us, id) == [us EXCEPT ![id] = NoUser]

\* StoreSave rewriting the document from the schema's required paths: the
\* optional studentId is lost.
StoreSaveDropsStudentId(us, user) ==
  [us EXCEPT ![user.id].isEmailVerified = user.isEmailVerified,
             ![user.id].studentId = <<>>]
\* user.save() after user.isEmailVerified = true: an update of the modified
\* path of the document with that _id.
StoreSave(us, user) == [us EXCEPT ![user.id].isEmailVerified = user.isEmailVerified]

\* ------------------------------------------------------------ responses
\* What a handler sends: HTTP status, the body's code (for the HTML and redirect
\* answers of the GET link and for the login answer, which have none, a name),
\* the duplicate field or error detail, the itemized password report (a
\* sequence of one record when the body has it), the JWT's claims and the user
\* object of the body.
Response(status, code) ==
  [status |-> status, code |-> code, field |-> "", details |-> "",
   requirements |-> <<>>, token |-> NoToken, user |-> NoUser]
NoResponse == Response(0, "")

\* jwt.sign({ id, role, email }).
JwtClaims(user) == [id |-> user.id, role |-> user.role, email |-> user.email]

\* Projection sending the whole document.
ProjectionWhole(user, fields) == user
\* The user object of the JSON bodies and of the redirect's payload: the fields
\* the handler copies, the others blank.
Projection(user, fields) ==
  [k \in DOMAIN NoUser |-> IF k \in fields THEN user[k] ELSE NoUser[k]]
RegisterFields == {"id","fullName","email","studentId","role","university","college","isEmailVerified"}
VerifyFields == {"id","fullName","email","role","university","college","isEmailVerified"}
LoginFields == {"id","fullName","email","role","university","college","studentId"}
MeFields == {"id","fullName","email","role","university","college","studentId","isEmailVerified"}

\* The outcome of the spec's taxonomy that a response stands for.
Outcome(r) ==
  CASE r.code = "MISSING_FIELDS" -> "MissingFields"
    [] r.code = "PASSWORD_MISMATCH" -> "PasswordMismatch"
    [] r.code = "WEAK_PASSWORD" -> "WeakPassword"
    [] r.code = "INVALID_EMAIL_FORMAT" -> "InvalidEmailFormat"
    [] r.code = "DUPLICATE_ENTRY" -> "DuplicateEntry"
    [] r.code \in {"INVALID_UID", "HTML_USER_NOT_FOUND", "USER_NOT_FOUND"} -> "NotFound"
    [] r.code \in {"NO_TOKEN", "INVALID_TOKEN"} -> "Unauthorized"
    [] r.code = "ALREADY_VERIFIED" -> "AlreadyVerified"
    [] r.code \in {"TOKEN_EXPIRED_ACCOUNT_REMOVED", "HTML_LINK_EXPIRED"} -> "LinkExpiredAccountRemoved"
    [] r.code = "INVALID_CREDENTIALS" -> "InvalidCredentials"
    [] r.code = "EMAIL_NOT_VERIFIED" -> "EmailNotVerified"
    [] r.code \in {"INTERNAL_SERVER_ERROR", "HTML_VERIFICATION_FAILED"} -> "InternalError"
    [] r.code \in {"REGISTRATION_SUCCESS_VERIFY_EMAIL", "EMAIL_VERIFIED_SUCCESS",
                   "REDIRECT_DASHBOARD", "LOGIN_SUCCESS", "AUTH_VERIFIED"} -> "Success"
    [] OTHER -> "Other"

\* ------------------------------------------------------------- requests
NameAli == <<"A","l","i">>
NameSara == <<"S","a","r","a">>
DrPrefix == <<"D","r","."," ">>
HostSci == <<"@","s","c","i",".","c","u",".","e","d","u",".","e","g">>
HostStdSci == <<"@","s","t","d",".","s","c","i",".","c","u",".","e","d","u",".","e","g">>
HostStdEng == <<"@","s","t","d",".","e","n","g",".","c","u",".","e","d","u",".","e","g">>
HostXyz == <<"@","x","y","z",".","c","u",".","e","d","u",".","e","g">>
\* An instructor's address, as typed with a capital and in lower case.
EmailAliCaps == <<"A","l","i">> \o HostSci
EmailAli == <<"a","l","i">> \o HostSci
\* A student's address in the 9-digit format and in the legacy 7-digit format.
EmailStudent == <<"1","2","3","4","5","6","7","8","9">> \o HostStdSci
EmailLegacy == <<"3","4","5","6","7","8","9">> \o HostStdSci
\* Student addresses that resolve to the same studentId as EmailStudent: the
\* same seven digits behind another two-digit prefix, and the same local part
\* under another faculty.
EmailStudentOtherPrefix == <<"9","9","3","4","5","6","7","8","9">> \o HostStdSci
EmailStudentEng == <<"1","2","3","4","5","6","7","8","9">> \o HostStdEng
\* Another student's address.
EmailOtherStudent == <<"7","6","5","4","3","2","1">> \o HostStdSci
\* Two more instructors' addresses, of two faculties.
EmailSara == <<"s","a","r","a">> \o HostSci
EmailOmar == <<"o","m","a","r">> \o <<"@","e","n","g",".","c","u",".","e","d","u",".","e","g">>
\* An address of a faculty the directory does not list.
EmailUnknownFaculty == <<"a","l","i">> \o HostXyz
\* Two passwords that meet the policy and one that does not.
Pw1 == <<"a","b","c","1","2","!">>
Pw2 == <<"x","y","z","7","8","?">>
PwWeak == <<"a","b","c","1","2">>

RegisterBody(fullName, email, password, confirmPassword) ==
  [fullName |-> fullName, email |-> email, password |-> password,
   confirmPassword |-> confirmPassword]
\* The people whose addresses the requests of one run use.
People == {"instructor", "student", "classmates", "colleagues"}
\* The request bodies POST /register is called with.
RegisterBodies(person) ==
  IF person = "instructor"
  THEN { RegisterBody(NameAli, EmailAliCaps, Pw2, Pw2),
         RegisterBody(NameAli, EmailAli, Pw2, Pw2),
         RegisterBody(<<>>, EmailAli, Pw1, Pw1),
         RegisterBody(NameAli, EmailAli, Pw1, Pw2),
         RegisterBody(NameAli, EmailUnknownFaculty, PwWeak, PwWeak),
         RegisterBody(NameAli, EmailUnknownFaculty, Pw1, Pw1) }
  ELSE IF person = "student"
  THEN { RegisterBody(NameSara, EmailStudent, Pw1, Pw1) }
  ELSE IF person = "colleagues"
  THEN { RegisterBody(NameAli, EmailAli, Pw1, Pw1),
         RegisterBody(NameSara, EmailSara, Pw1, Pw1),
         RegisterBody(NameAli, EmailOmar, Pw2, Pw2) }
  ELSE { RegisterBody(NameSara, EmailStudent, Pw1, Pw1),
         RegisterBody(NameSara, EmailLegacy, Pw1, Pw1),
         RegisterBody(NameSara, EmailStudentOtherPrefix, Pw1, Pw1),
         RegisterBody(NameSara, EmailStudentEng, Pw1, Pw1),
         RegisterBody(NameAli, EmailOtherStudent, Pw2, Pw2) }
\* The emails and passwords POST /login is called with (<<>>: field missing).
LoginEmails(person) ==
  IF person = "instructor" THEN {EmailAliCaps, <<>>}
  ELSE IF person = "student" THEN {EmailStudent}
  ELSE {}
LoginPasswords == {Pw1, Pw2}
\* The bearer tokens GET /me is called with, each named by the id in its
\* claims: the tokens that reached a client, no token (0) and a token the
\* server did not sign (-1).  Tokens are signed for 7 days, longer than the
\* clock runs.
ForgedToken == 0 - 1
\* The people whose clients keep the tokens they are handed, and call GET /me.
KeepsToken(who) == who = "student"
MeTokens(who, held) == IF KeepsToken(who) THEN held \cup {0, ForgedToken} ELSE {}
\* A uid that is not the text of an ObjectId (such as "abc"): the cast of
\* findById's argument fails.
MalformedUid == 0 - 2
\* The uids the verification routes are called with (0: uid missing); the
\* classmates and the colleagues only register, and the instructor's link is
\* also tried with a mistyped uid.
VerifyUids(person) ==
  IF person \in {"classmates", "colleagues"} THEN {}
  ELSE IF person = "instructor" THEN Ids \cup {0, MalformedUid}
  ELSE Ids \cup {0}

VARIABLES
  person,   \* whose addresses the clients of this run use
  users,    \* the User collection: Ids -> document, NoUser where none is stored
  nextId,   \* the next ObjectId the store assigns
  ticks,    \* the number of clock advances so far
  now,      \* Date.now()
  pc,       \* per client: "ready", the store operation its request awaits, "done"
  route,    \* per client: the route of its request
  body,     \* per client: the request's input
  doc,      \* per client: the handler's userPayload / the user findById returned
  res,      \* per client: the response, while pc is "done"
  mail,     \* per client: the verification mail its request handed over
  created,  \* history: every document as it was inserted, by id
  verifyOk, \* history: per id, the verification successes delivered (up to 2)
  purged,   \* history: ids for which "link expired, account removed" was delivered
  thrown,   \* per client: the error its last awaited operation rejected with
  directory,\* the value of the Universities binding of config/universities.js
  address,  \* the email the resolver is applied to on its own
  resolved, \* what extractUserDataFromEmail(address) returned or threw
  form,     \* the register form one client fills in, when it is followed alone
  strength, \* what validatePasswordStrength(form.password) returned
  issued    \* history: the ids for which a token has reached a client
\* The resolver applied on its own: its binding, its argument, its result.
resolver == <<directory, address, resolved>>
\* The register form followed alone: the form and its password's report.
intake == <<form, strength>>
vars == <<person, users, nextId, ticks, now, pc, route, body, doc, res, mail,
          created, verifyOk, purged, thrown, resolver, intake, issued>>

NoBody == [fullName |-> <<>>, email |-> <<>>, password |-> <<>>,
           confirmPassword |-> <<>>, uid |-> 0, token |-> 0]
RequestBody(b) == [k \in DOMAIN NoBody |-> IF k \in DOMAIN b THEN b[k] ELSE NoBody[k]]
\* sendVerificationEmail(email, userId, userName): the message's recipient and
\* the id in its link, and whether sendMail accepted it.
NoMail == [to |-> <<>>, uid |-> 0, sent |-> FALSE]

\* validatePasswordStrength has not been called.
NotValidated ==
  [called |-> FALSE,
   result |-> [isStrong |-> FALSE,
               requirements |-> [length |-> FALSE, hasLetter |-> FALSE,
                                 hasDigit |-> FALSE, hasSpecial |-> FALSE]]]
\* The resolver has not been called.
NotResolved == [called |-> FALSE, emailData |-> ResolveFail("")]

Init ==
  /\ person \in People
  /\ users = [i \in Ids |-> NoUser]
  /\ nextId = 1
  /\ ticks = 0
  /\ now = 0
  /\ pc = [p \in Procs |-> "ready"]
  /\ route = [p \in Procs |-> ""]
  /\ body = [p \in Procs |-> NoBody]
  /\ doc = [p \in Procs |-> NoUser]
  /\ res = [p \in Procs |-> NoResponse]
  /\ mail = [p \in Procs |-> NoMail]
  /\ created = [i \in Ids |-> NoUser]
  /\ verifyOk = [i \in Ids |-> 0]
  /\ purged = {}
  /\ thrown = [p \in Procs |-> ""]
  /\ directory = Universities
  /\ address = <<>>
  /\ resolved = NotResolved
  /\ form = NoBody
  /\ strength = NotValidated
  /\ issued = {}

\* A response is an event: once a handler has answered, the answer reaches its
\* client (Deliver) before anything else happens.
Quiet == \A q \in Procs : pc[q] # "done"
\* A handler answers.
Respond(p, r) ==
  /\ res' = [res EXCEPT ![p] = r]
  /\ pc' = [pc EXCEPT ![p] = "done"]
\* A handler awaits the store operation op.
Await(p, op) ==
  /\ pc' = [pc EXCEPT ![p] = op]
  /\ UNCHANGED res
\* The operation a handler awaited settles: e names the error it rejected
\* with, "" when it resolved.
Throw(p, e) == thrown' = [thrown EXCEPT ![p] = e]
\* A client sends a request; of the clients that have none in flight, the first
\* one does (they are interchangeable).
Send(p, r, b) ==
  /\ Quiet
  /\ pc[p] = "ready"
  /\ \A q \in 1..(p - 1) : pc[q] # "ready"
  /\ route' = [route EXCEPT ![p] = r]
  /\ body' = [body EXCEPT ![p] = RequestBody(b)]
\* A handler's continuation runs.
Running(p, op) == Quiet /\ pc[p] = op
Pending(p) == pc[p] = "done"

\* ---------------------------------------------------------- POST /register
\* RegisterValidate with none of the handler's checks: every body goes on to
\* the insert.
RegisterValidateAcceptsAll(b) ==
  [response |-> NoResponse,
   userPayload |-> [NoUser EXCEPT !.fullName = b.fullName,
                                  !.email = ToLowerCase(b.email),
                                  !.password = BcryptHash(b.password),
                                  !.role = "instructor"]]
\* The requirements object of the WEAK_PASSWORD body: the status of each item.
WeakPasswordReport(password) ==
  LET requirements == validatePasswordStrength(password).requirements
  IN [minLength      |-> requirements.length,
      hasLetters     |-> requirements.hasLetter,
      hasNumbers     |-> requirements.hasDigit,
      hasSpecialChar |-> requirements.hasSpecial]

\* DisplayName prefixing every instructor's name.
DisplayNameAlwaysPrefixed(fullName, role) ==
  IF role = "instructor" THEN DrPrefix \o fullName ELSE fullName
\* displayName: "Dr. " is put before an instructor's name that does not start
\* with "dr." in any letter case.
DisplayName(fullName, role) ==
  IF role = "instructor" /\ ~StartsWith(ToLowerCase(fullName), <<"d","r",".">>)
  THEN DrPrefix \o fullName ELSE fullName

\* The handler up to User.create, the Universities binding holding U: the
\* response it returns early, or the userPayload it goes on to insert (response
\* status 0).
RegisterValidateIn(U, b) ==
  LET emailLower == ToLowerCase(b.email)
      emailData  == ResolveIn(U, emailLower)
      displayName == DisplayName(b.fullName, emailData.role)
      userPayload ==
        [NoUser EXCEPT !.fullName = displayName,
                       !.email = emailLower,
                       !.password = BcryptHash(b.password),
                       !.role = emailData.role,
                       !.university = emailData.university,
                       !.college = emailData.faculty,
                       !.isEmailVerified = FALSE,
                       !.studentId = IF emailData.role = "student"
                                     THEN emailData.studentId ELSE <<>>]
  IN IF b.fullName = <<>> \/ b.email = <<>> \/ b.password = <<>> \/ b.confirmPassword = <<>>
     THEN [response |-> Response(400, "MISSING_FIELDS"), userPayload |-> NoUser]
     ELSE IF b.password # b.confirmPassword
     THEN [response |-> Response(400, "PASSWORD_MISMATCH"), userPayload |-> NoUser]
     ELSE IF ~validatePasswordStrength(b.password).isStrong
     THEN [response |-> [Response(400, "WEAK_PASSWORD")
                           EXCEPT !.requirements = <<WeakPasswordReport(b.password)>>],
           userPayload |-> NoUser]
     ELSE IF ~emailData.ok
     THEN [response |-> [Response(400, "INVALID_EMAIL_FORMAT") EXCEPT !.details = emailData.error],
           userPayload |-> NoUser]
     ELSE [response |-> NoResponse, userPayload |-> userPayload]
\* RegisterValidate resolving the email before it tests the password's
\* strength.
RegisterValidateEmailFirst(b) ==
  IF /\ b.fullName # <<>> /\ b.email # <<>> /\ b.password # <<>>
     /\ b.confirmPassword = b.password
     /\ ~ResolveIn(Universities, ToLowerCase(b.email)).ok
  THEN [response |-> [Response(400, "INVALID_EMAIL_FORMAT")
                        EXCEPT !.details = ResolveIn(Universities, ToLowerCase(b.email)).error],
        userPayload |-> NoUser]
  ELSE RegisterValidateIn(Universities, b)
\* The same, with the Universities binding as the module defines it.
RegisterValidate(b) == RegisterValidateIn(Universities, b)
\* The handler's synchronous part, on each of the request bodies.
Validated == [b \in UNION {RegisterBodies(w) : w \in People} |-> RegisterValidate(b)]

\* The 201 answer for the inserted document.
RegisterSuccess(newUser) ==
  [Response(201, "REGISTRATION_SUCCESS_VERIFY_EMAIL")
     EXCEPT !.user = Projection(newUser, RegisterFields)]
\* RegisterDuplicate falling through to the handler's last resort.
RegisterDuplicateAsInternal(field) == Response(500, "INTERNAL_SERVER_ERROR")
\* The handler's catch for a duplicate key error (code 11000) on field.
RegisterDuplicate(field) ==
  [Response(409, "DUPLICATE_ENTRY") EXCEPT !.field = field]
\* RegisterAnswer with a rejected sendMail reaching the handler's outer catch.
RegisterAnswerMailFatal(newUser, mailOk) ==
  IF mailOk THEN RegisterSuccess(newUser) ELSE Response(500, "INTERNAL_SERVER_ERROR")
\* The handler after the insert: sendVerificationEmail inside its own
\* try/catch (a rejection is logged), then the 201 answer.
RegisterAnswer(newUser, mailOk) == RegisterSuccess(newUser)

\* POST /register arrives and runs to its first store operation.
Register(p, b) ==
  /\ Send(p, "register", b)
  /\ IF Validated[b].response.status # 0
     THEN Respond(p, Validated[b].response) /\ UNCHANGED doc
     ELSE Await(p, "create") /\ doc' = [doc EXCEPT ![p] = Validated[b].userPayload]
  /\ UNCHANGED <<intake, issued, resolver, person, users, nextId, ticks, now, mail, created, verifyOk, purged, thrown>>

\* User.create executes in the store, then the mail is sent and the handler
\* answers.  storeOk = FALSE: the store operation fails with an error other
\* than a duplicate key; mailOk = FALSE: sendMail rejects (caught and logged).
RegisterCreate(p, storeOk, mailOk) ==
  /\ Running(p, "create")
  /\ LET field == DuplicateKey(users, NewDocument(doc[p], nextId, now))
         inserted == storeOk /\ field = ""
     IN /\ inserted => nextId \in Ids
        /\ users' = IF storeOk THEN StoreCreate(users, doc[p], nextId, now) ELSE users
        /\ IF inserted
           THEN /\ nextId' = nextId + 1
                /\ created' = [created EXCEPT ![nextId] = users'[nextId]]
                /\ mail' = [mail EXCEPT ![p] = [to |-> doc[p].email, uid |-> nextId,
                                               sent |-> mailOk]]
                /\ Respond(p, RegisterAnswer(users'[nextId], mailOk))
           ELSE /\ UNCHANGED <<nextId, created, mail>>
                /\ Respond(p, IF storeOk THEN RegisterDuplicate(field)
                              ELSE Response(500, "INTERNAL_SERVER_ERROR"))
        /\ Throw(p, IF ~storeOk THEN "StoreError"
                    ELSE IF field # "" THEN "E11000" ELSE "")
  /\ UNCHANGED <<intake, issued, resolver, person, ticks, now, route, body, doc, verifyOk, purged>>

\* ------------------------------------- POST /verify-email, GET /verify-email/:uid
\* IsExpired with the link expiring at the limit itself.
IsExpiredAtLimit(createdAt, t) == t - createdAt >= maxAgeMs
\* ageMs > maxAgeMs, with ageMs = Date.now() - createdAt.
IsExpired(createdAt, t) == t - createdAt > maxAgeMs

\* The answers of the two routes.
VerifyMissingUid(r) ==
  IF r = "verifyPost" THEN Response(400, "MISSING_UID") ELSE Response(400, "HTML_UID_MISSING")
VerifyNotFound(r) ==
  IF r = "verifyPost" THEN Response(400, "INVALID_UID") ELSE Response(400, "HTML_USER_NOT_FOUND")
\* The redirect to the dashboard, carrying a signed token and the user payload.
VerifyRedirect(user) ==
  [Response(302, "REDIRECT_DASHBOARD")
     EXCEPT !.token = JwtClaims(user), !.user = Projection(user, LoginFields)]
\* VerifyAlready with the POST route answering as the GET link does.
VerifyAlreadyRedirects(r, user) == VerifyRedirect(user)
VerifyAlready(r, user) ==
  IF r = "verifyPost" THEN Response(400, "ALREADY_VERIFIED") ELSE VerifyRedirect(user)
VerifyExpired(r) ==
  IF r = "verifyPost" THEN Response(400, "TOKEN_EXPIRED_ACCOUNT_REMOVED")
  ELSE Response(400, "HTML_LINK_EXPIRED")
VerifySuccess(r, user) ==
  IF r = "verifyPost"
  THEN [Response(200, "EMAIL_VERIFIED_SUCCESS") EXCEPT !.user = Projection(user, VerifyFields)]
  ELSE VerifyRedirect(user)
VerifyFailed(r) ==
  IF r = "verifyPost" THEN Response(500, "INTERNAL_SERVER_ERROR")
  ELSE Response(500, "HTML_VERIFICATION_FAILED")

\* VerifyCheck without the test of user.isEmailVerified.
VerifyCheckNoAlready(r, user, t) ==
  IF user.id = 0 THEN [op |-> "", response |-> VerifyNotFound(r)]
  ELSE IF t - user.createdAt > maxAgeMs THEN [op |-> "deleteOne", response |-> NoResponse]
  ELSE [op |-> "save", response |-> NoResponse]

\* The handler between findById's result and its next store operation, at time
\* t: the response it returns (op ""), or the store operation it goes on to.
VerifyCheck(r, user, t) ==
  IF user.id = 0 THEN [op |-> "", response |-> VerifyNotFound(r)]
  ELSE IF user.isEmailVerified THEN [op |-> "", response |-> VerifyAlready(r, user)]
  ELSE IF IsExpired(user.createdAt, t) THEN [op |-> "deleteOne", response |-> NoResponse]
  ELSE [op |-> "save", response |-> NoResponse]

\* user.isEmailVerified = true, on the handler's copy of the document.
MarkVerified(user) == [user EXCEPT !.isEmailVerified = TRUE]

\* A verification request arrives (r: which of the two routes).
Verify(p, r, uid) ==
  /\ Send(p, r, [uid |-> uid])
  /\ IF uid = 0 THEN Respond(p, VerifyMissingUid(r)) ELSE Await(p, "findById")
  /\ UNCHANGED <<intake, issued, resolver, person, users, nextId, ticks, now, doc, mail, created, verifyOk, purged, thrown>>

\* User.findById executes in the store; a uid that cannot be cast to an
\* ObjectId makes it reject (CastError) before the store is asked, and the
\* handler's catch answers.
VerifyFindById(p, storeOk) ==
  /\ Running(p, "findById")
  /\ IF storeOk /\ body[p].uid # MalformedUid
     THEN /\ doc' = [doc EXCEPT ![p] = StoreFindById(users, body[p].uid)]
          /\ Await(p, "check")
     ELSE /\ Respond(p, VerifyFailed(route[p]))
          /\ UNCHANGED doc
  /\ Throw(p, IF body[p].uid = MalformedUid THEN "CastError"
              ELSE IF storeOk THEN "" ELSE "StoreError")
  /\ UNCHANGED <<intake, issued, resolver, person, users, nextId, ticks, now, route, body, mail, created, verifyOk, purged>>

\* The handler resumes with findById's result and reads the clock.
VerifyResume(p) ==
  /\ Running(p, "check")
  /\ LET c == VerifyCheck(route[p], doc[p], now)
     IN IF c.op = "" THEN Respond(p, c.response) ELSE Await(p, c.op)
  /\ UNCHANGED <<intake, issued, resolver, person, users, nextId, ticks, now, route, body, doc, mail, created, verifyOk, purged, thrown>>

\* User.deleteOne executes (or fails: caught and logged), and the handler answers.
VerifyDeleteOne(p, storeOk) ==
  /\ Running(p, "deleteOne")
  /\ users' = IF storeOk THEN StoreDeleteOne(users, doc[p].id) ELSE users
  /\ Respond(p, VerifyExpired(route[p]))
  /\ Throw(p, IF storeOk THEN "" ELSE "StoreError")
  /\ UNCHANGED <<intake, issued, resolver, person, nextId, ticks, now, route, body, doc, mail, created, verifyOk, purged>>

\* The flag is set on the handler's document and user.save() executes; save
\* rejects when the store fails and when no document with the _id is left to
\* update.  Then the handler answers.
VerifySave(p, storeOk) ==
  /\ Running(p, "save")
  /\ IF storeOk /\ users[doc[p].id].id # 0
     THEN /\ users' = StoreSave(users, MarkVerified(doc[p]))
          /\ Respond(p, VerifySuccess(route[p], MarkVerified(doc[p])))
     ELSE /\ Respond(p, VerifyFailed(route[p]))
          /\ UNCHANGED users
  /\ Throw(p, IF ~storeOk THEN "StoreError"
              ELSE IF users[doc[p].id].id = 0 THEN "DocumentNotFoundError" ELSE "")
  /\ UNCHANGED <<intake, issued, resolver, person, nextId, ticks, now, route, body, doc, mail, created, verifyOk, purged>>

\* ------------------------------------------------------------- POST /login
\* LoginRespond without the test of user.isEmailVerified.
LoginRespondNoGate(user, password) ==
  IF user.id = 0 THEN Response(401, "INVALID_CREDENTIALS")
  ELSE IF ~BcryptCompare(password, user.password) THEN Response(401, "INVALID_CREDENTIALS")
  ELSE [Response(200, "LOGIN_SUCCESS")
          EXCEPT !.token = JwtClaims(user), !.user = Projection(user, LoginFields)]

\* The handler after findOne returned user.
LoginRespond(user, password) ==
  IF user.id = 0 THEN Response(401, "INVALID_CREDENTIALS")
  ELSE IF ~user.isEmailVerified THEN Response(403, "EMAIL_NOT_VERIFIED")
  ELSE IF ~BcryptCompare(password, user.password) THEN Response(401, "INVALID_CREDENTIALS")
  ELSE [Response(200, "LOGIN_SUCCESS")
          EXCEPT !.token = JwtClaims(user), !.user = Projection(user, LoginFields)]

\* POST /login arrives.
Login(p, email, password) ==
  /\ Send(p, "login", [email |-> email, password |-> password])
  /\ IF email = <<>> \/ password = <<>>
     THEN Respond(p, Response(400, "MISSING_FIELDS"))
     ELSE Await(p, "findOne")
  /\ UNCHANGED <<intake, issued, resolver, person, users, nextId, ticks, now, doc, mail, created, verifyOk, purged, thrown>>

\* LoginFindOne discovering expiry on login: a pending account found past its
\* window is deleted before the handler answers.
LoginFindOnePurging(p, storeOk) ==
  /\ Running(p, "findOne")
  /\ IF storeOk
     THEN /\ doc' = [doc EXCEPT ![p] = StoreFindOne(users, ToLowerCase(body[p].email))]
          /\ Respond(p, LoginRespond(doc'[p], body[p].password))
          /\ users' = IF doc'[p].id # 0 /\ ~doc'[p].isEmailVerified
                         /\ now - doc'[p].createdAt > maxAgeMs
                      THEN [users EXCEPT ![doc'[p].id] = NoUser] ELSE users
     ELSE /\ Respond(p, Response(500, "INTERNAL_SERVER_ERROR"))
          /\ UNCHANGED <<doc, users>>
  /\ Throw(p, IF storeOk THEN "" ELSE "StoreError")
  /\ UNCHANGED <<intake, issued, resolver, person, nextId, ticks, now, route, body, mail, created, verifyOk, purged>>

\* User.findOne executes in the store and the handler answers.
LoginFindOne(p, storeOk) ==
  /\ Running(p, "findOne")
  /\ IF storeOk
     THEN /\ doc' = [doc EXCEPT ![p] = StoreFindOne(users, ToLowerCase(body[p].email))]
          /\ Respond(p, LoginRespond(doc'[p], body[p].password))
     ELSE /\ Respond(p, Response(500, "INTERNAL_SERVER_ERROR"))
          /\ UNCHANGED doc
  /\ Throw(p, IF storeOk THEN "" ELSE "StoreError")
  /\ UNCHANGED <<intake, issued, resolver, person, users, nextId, ticks, now, route, body, mail, created, verifyOk, purged>>

\* ------------------------------------------------------------- GET /me
\* GET /me arrives at authenticateToken: the token is read and jwt.verify
\* checks it.
WhoAmI(p, t) ==
  /\ Send(p, "me", [token |-> t])
  /\ IF t = 0 THEN Respond(p, Response(401, "NO_TOKEN"))
     ELSE IF t = ForgedToken THEN Respond(p, Response(401, "INVALID_TOKEN"))
     ELSE Await(p, "authFind")
  /\ UNCHANGED <<intake, issued, resolver, person, users, nextId, ticks, now, doc, mail, created, verifyOk, purged, thrown>>

\* The middleware's User.findById(payload.id) executes; with a user found,
\* next() enters the handler, which starts its own User.findById(req.user.id).
AuthFindById(p, storeOk) ==
  /\ Running(p, "authFind")
  /\ IF ~storeOk
     THEN Respond(p, Response(500, "INTERNAL_SERVER_ERROR")) /\ UNCHANGED doc
     ELSE IF StoreFindById(users, body[p].token).id = 0
     THEN Respond(p, Response(401, "USER_NOT_FOUND")) /\ UNCHANGED doc
     ELSE /\ doc' = [doc EXCEPT ![p] = StoreFindById(users, body[p].token)]
          /\ Await(p, "meFind")
  /\ Throw(p, IF storeOk THEN "" ELSE "StoreError")
  /\ UNCHANGED <<intake, issued, resolver, person, users, nextId, ticks, now, route, body, mail, created, verifyOk, purged>>

\* MeSuccess without the user object.
MeSuccessNoUser(user) == Response(200, "AUTH_VERIFIED")
\* The 200 answer of GET /me for the user its findById returned.
MeSuccess(user) ==
  [Response(200, "AUTH_VERIFIED") EXCEPT !.user = Projection(user, MeFields)]

\* The handler's User.findById executes and the handler answers; its catch
\* answers 401 INVALID_TOKEN for any error.
MeFindById(p, storeOk) ==
  /\ Running(p, "meFind")
  /\ IF ~storeOk
     THEN Respond(p, Response(401, "INVALID_TOKEN")) /\ UNCHANGED doc
     ELSE IF StoreFindById(users, doc[p].id).id = 0
     THEN Respond(p, Response(404, "USER_NOT_FOUND")) /\ UNCHANGED doc
     ELSE /\ doc' = [doc EXCEPT ![p] = StoreFindById(users, doc[p].id)]
          /\ Respond(p, MeSuccess(doc'[p]))
  /\ Throw(p, IF storeOk THEN "" ELSE "StoreError")
  /\ UNCHANGED <<intake, issued, resolver, person, users, nextId, ticks, now, route, body, mail, created, verifyOk, purged>>

\* ---------------------------------------------------- delivery and clock
IsVerifyRoute(r) == r \in {"verifyPost", "verifyGet"}
\* The id a delivered response reports as newly verified (0: none): a
\* verification that went through save.
VerifiedBy(p) ==
  IF IsVerifyRoute(route[p]) /\ res[p].status \in {200, 302} /\ ~doc[p].isEmailVerified
  THEN doc[p].id ELSE 0
\* The id a delivered response reports as removed (0: none).
PurgedBy(p) ==
  IF Outcome(res[p]) = "LinkExpiredAccountRemoved" THEN doc[p].id ELSE 0

\* The response reaches the client; the request is over.
Deliver(p) ==
  /\ Pending(p)
  /\ pc' = [pc EXCEPT ![p] = "ready"]
  /\ route' = [route EXCEPT ![p] = ""]
  /\ body' = [body EXCEPT ![p] = NoBody]
  /\ doc' = [doc EXCEPT ![p] = NoUser]
  /\ res' = [res EXCEPT ![p] = NoResponse]
  /\ mail' = [mail EXCEPT ![p] = NoMail]
  /\ thrown' = [thrown EXCEPT ![p] = ""]
  /\ verifyOk' = IF VerifiedBy(p) # 0 /\ verifyOk[VerifiedBy(p)] < 2
                 THEN [verifyOk EXCEPT ![VerifiedBy(p)] = @ + 1] ELSE verifyOk
  /\ purged' = IF PurgedBy(p) # 0 THEN purged \cup {PurgedBy(p)} ELSE purged
  /\ issued' = IF KeepsToken(person) /\ res[p].token.id # 0
               THEN issued \cup {res[p].token.id} ELSE issued
  /\ UNCHANGED <<intake, resolver, person, users, nextId, ticks, now, created>>

\* The clock advances, by a whole verification window and by one millisecond
\* in turn: ages of exactly maxAgeMs and of maxAgeMs + 1 both occur.
TickMs(k) == IF k % 2 = 0 THEN maxAgeMs ELSE 1
Tick ==
  /\ Quiet
  /\ ticks < MaxTicks
  /\ ticks' = ticks + 1
  /\ now' = now + TickMs(ticks)
  /\ UNCHANGED <<intake, issued, resolver, person, users, nextId, pc, route, body, doc, res, mail, created, verifyOk, purged, thrown>>

\* -------------------------------------------------------- specifications
Step(p) ==
  \/ \E b \in RegisterBodies(person) : Register(p, b)
  \/ \E storeOk \in BOOLEAN, mailOk \in BOOLEAN : RegisterCreate(p, storeOk, mailOk)
  \/ \E r \in {"verifyPost", "verifyGet"}, uid \in VerifyUids(person) : Verify(p, r, uid)
  \/ \E storeOk \in BOOLEAN : VerifyFindById(p, storeOk)
  \/ VerifyResume(p)
  \/ \E storeOk \in BOOLEAN : VerifyDeleteOne(p, storeOk)
  \/ \E storeOk \in BOOLEAN : VerifySave(p, storeOk)
  \/ \E e \in LoginEmails(person), pw \in LoginPasswords : Login(p, e, pw)
  \/ \E storeOk \in BOOLEAN : LoginFindOne(p, storeOk)
  \/ \E t \in MeTokens(person, issued) : WhoAmI(p, t)
  \/ \E storeOk \in BOOLEAN : AuthFindById(p, storeOk)
  \/ \E storeOk \in BOOLEAN : MeFindById(p, storeOk)
  \/ Deliver(p)

\* Requests of all clients interleave at their store operations.
Next == Tick \/ \E p \in Procs : Step(p)
Spec == Init /\ [][Next]_vars

\* One request at a time: a step is taken only while no other client has a
\* request in flight.
Serial(p) == \A q \in Procs \ {p} : pc[q] = "ready"
SerialNext == Tick \/ \E p \in Procs : Serial(p) /\ Step(p)
SerialSpec == Init /\ [][SerialNext]_vars

\* --------------------------------------------- the resolver on its own
\* Directories the Universities binding is given: the one of
\* config/universities.js; that one with a faculty added to Cairo University
\* and a second university; and one that lists the second university only.
DomCu == CuEduEg
DomAun == <<"a","u","n",".","e","d","u",".","e","g">>
TokSci == <<"s","c","i">>
TokEng == <<"e","n","g">>
TokXyz == <<"x","y","z">>
AssiutEntry ==
  [name |-> "Assiut University",
   subdomains |-> (TokSci :> "Faculty of Science, Assiut") @@
                  (TokXyz :> "Faculty of Xyz, Assiut")]
Directories ==
  { Universities,
    (DomCu :> [name |-> Universities[DomCu].name,
               subdomains |-> Universities[DomCu].subdomains @@
                              (TokXyz :> "Faculty of Xyz")]) @@
    (DomAun :> AssiutEntry),
    (DomAun :> AssiutEntry) }

\* The parts the resolver's arguments are put together from.
DigitBase == <<"1","2","3","4","5","6","7","8","9","0","1","2">>
ResolverLocals ==
  {SubSeq(DigitBase, i, i + n - 1) : i \in {1, 2}, n \in {6, 7, 8, 9, 10}}
  \cup { <<"a","l","i">>, <<"A","l","i">>, <<"1","2","3","4","5","6","x">>,
         <<"1","2","3","4","5","6","7","8","y">>, <<"a",".","b","_","c">> }
ResolverMarkers == { <<>>, StdDot, <<"S","T","D",".">> }
ResolverTokens ==
  { TokSci, <<"S","c","i">>, TokEng, TokXyz, <<"s","t","d">>,
    <<"c","o","n","s","t","r","u","c","t","o","r">> }
ResolverDomains == { DomCu, <<"C","U",".","E","D","U",".","E","G">>, DomAun }
ResolverAddresses ==
  [local : ResolverLocals, marker : ResolverMarkers, sub : ResolverTokens,
   dom : ResolverDomains]
\* The email an address stands for: local@[std.]sub.dom.
AddressText(a) == a.local \o <<"@">> \o a.marker \o a.sub \o <<".">> \o a.dom

ResolverInit ==
  /\ person = "instructor"
  /\ users = [i \in Ids |-> NoUser]
  /\ nextId = 1
  /\ ticks = 0
  /\ now = 0
  /\ pc = [p \in Procs |-> "ready"]
  /\ route = [p \in Procs |-> ""]
  /\ body = [p \in Procs |-> NoBody]
  /\ doc = [p \in Procs |-> NoUser]
  /\ res = [p \in Procs |-> NoResponse]
  /\ mail = [p \in Procs |-> NoMail]
  /\ created = [i \in Ids |-> NoUser]
  /\ verifyOk = [i \in Ids |-> 0]
  /\ purged = {}
  /\ thrown = [p \in Procs |-> ""]
  /\ directory \in Directories
  /\ address \in ResolverAddresses
  /\ resolved = NotResolved
  /\ form = NoBody
  /\ strength = NotValidated
  /\ issued = {}

\* extractUserDataFromEmail is called with the address.
Resolve ==
  /\ ~resolved.called
  /\ resolved' = [called |-> TRUE,
                  emailData |-> ResolveIn(directory, AddressText(address))]
  /\ UNCHANGED <<intake, issued, directory, address, person, users, nextId, ticks, now, pc, route,
                 body, doc, res, mail, created, verifyOk, purged, thrown>>

\* POST /register arrives with the address as its email and runs to its first
\* store operation.
ResolverRegister(p) ==
  LET b == RegisterBody(NameSara, AddressText(address), Pw1, Pw1)
      v == RegisterValidateIn(directory, b)
  IN /\ resolved.called
     /\ Send(p, "register", b)
     /\ IF v.response.status # 0
        THEN Respond(p, v.response) /\ UNCHANGED doc
        ELSE Await(p, "create") /\ doc' = [doc EXCEPT ![p] = v.userPayload]
     /\ UNCHANGED <<intake, issued, resolver, person, users, nextId, ticks, now, mail, created,
                    verifyOk, purged, thrown>>

\* The resolver applied to one address under one directory, and one client
\* registering with that address.
ResolverNext ==
  \/ Resolve
  \/ ResolverRegister(1)
  \/ \E storeOk \in BOOLEAN, mailOk \in BOOLEAN : RegisterCreate(1, storeOk, mailOk)
  \/ Deliver(1)
ResolverSpec == ResolverInit /\ [][ResolverNext]_vars

\* ------------------------------------------- the register form on its own
\* The passwords the form is filled in with: every text of 5 to MaxPwLen
\* characters over a letter, a digit and a symbol of the policy's set, and
\* texts with a capital, with symbols outside the set, and the three examples
\* abc12, abcdef, abc123!.
PolicyAlphabet == {"a", "1", "!"}
PolicyPasswords ==
  UNION {[1..n -> PolicyAlphabet] : n \in 5..MaxPwLen}
  \cup { <<"Z","1","?","Z","1","?">>, <<"a","1","_","a","1","_","a">>,
         <<"a","1","-","a","1"," ","a">>, <<"a","b","c","1","2">>,
         <<"a","b","c","d","e","f">>, <<"a","b","c","1","2","3","!">>,
         <<"1","2","3","4","5","6","}">>, <<"a","b","c","d","e","f","<">> }
\* The names the form is filled in with: plain, carrying the title in several
\* spellings, with blanks around, and a name that only begins like the title.
FormNames ==
  { NameAli, NameSara, DrPrefix \o NameAli, <<"d","r",".">> \o NameAli,
    <<"D","R","."," ">> \o NameAli, NameAli \o <<" ">>,
    <<" ">> \o DrPrefix \o NameAli, <<"D","r","a">> }
\* An address that does not have the shape of an email.
EmailMalformed == <<"a","l","i",".","s","c","i">>
\* The forms: one per password; one per name, for an instructor and for a
\* student; and every combination of a field left empty, a confirmation that
\* differs, a weak password and an email that does not resolve.
FormBodies ==
  { RegisterBody(NameAli, EmailAli, pw, pw) : pw \in PolicyPasswords }
  \cup { RegisterBody(n, e, Pw1, Pw1) : n \in FormNames, e \in {EmailAliCaps, EmailStudent} }
  \cup { RegisterBody(n, e, pw, cf) :
           n \in {<<>>, NameAli},
           e \in {<<>>, EmailAli, EmailUnknownFaculty, EmailMalformed},
           pw \in {<<>>, Pw1, PwWeak},
           cf \in {<<>>, Pw1, Pw2, PwWeak} }

FormInit ==
  /\ person = "instructor"
  /\ users = [i \in Ids |-> NoUser]
  /\ nextId = 1
  /\ ticks = 0
  /\ now = 0
  /\ pc = [p \in Procs |-> "ready"]
  /\ route = [p \in Procs |-> ""]
  /\ body = [p \in Procs |-> NoBody]
  /\ doc = [p \in Procs |-> NoUser]
  /\ res = [p \in Procs |-> NoResponse]
  /\ mail = [p \in Procs |-> NoMail]
  /\ created = [i \in Ids |-> NoUser]
  /\ verifyOk = [i \in Ids |-> 0]
  /\ purged = {}
  /\ thrown = [p \in Procs |-> ""]
  /\ directory = Universities
  /\ address = <<>>
  /\ resolved = NotResolved
  /\ form \in {RequestBody(b) : b \in FormBodies}
  /\ strength = NotValidated
  /\ issued = {}

\* validatePasswordStrength is called with the form's password.
Validate ==
  /\ ~strength.called
  /\ strength' = [called |-> TRUE, result |-> validatePasswordStrength(form.password)]
  /\ UNCHANGED <<form, issued, resolver, person, users, nextId, ticks, now, pc, route,
                 body, doc, res, mail, created, verifyOk, purged, thrown>>

\* POST /register arrives with the form and runs to its first store operation.
FormRegister(p) ==
  LET v == RegisterValidate(form)
  IN /\ strength.called
     /\ Send(p, "register", form)
     /\ IF v.response.status # 0
        THEN Respond(p, v.response) /\ UNCHANGED doc
        ELSE Await(p, "create") /\ doc' = [doc EXCEPT ![p] = v.userPayload]
     /\ UNCHANGED <<intake, issued, resolver, person, users, nextId, ticks, now, mail,
                    created, verifyOk, purged, thrown>>

\* The password policy applied to one form's password, and one client
\* registering with that form.
FormNext ==
  \/ Validate
  \/ FormRegister(1)
  \/ \E storeOk \in BOOLEAN, mailOk \in BOOLEAN : RegisterCreate(1, storeOk, mailOk)
  \/ Deliver(1)
FormSpec == FormInit /\ [][FormNext]_vars

\* ------------------------------------------------------------ properties
Stored(i) == users[i].id # 0
\* The account a pending verification or login response is about.
Account(p) == doc[p].id

\* C1: of the Verify requests for one pending, unexpired account, however they
\* interleave, exactly one performs the pending -> verified transition and
\* reports success (the others report AlreadyVerified and write nothing): no
\* account has two verification successes delivered, and no save is executed
\* on an account that is verified already.
C1OneVerifySucceeds == \A i \in Ids : verifyOk[i] <= 1

\* C2: verified is terminal: an account that is stored with isEmailVerified =
\* TRUE is never deleted by any step.
C2VerifiedNeverDeleted ==
  [][\A i \in Ids : Stored(i) /\ users[i].isEmailVerified => users'[i].id # 0]_vars

\* C3: isEmailVerified is monotonic: no step changes the flag of an account
\* that stays stored from TRUE to FALSE.
C3VerifiedMonotonic ==
  [][\A i \in Ids : Stored(i) /\ users'[i].id # 0 /\ users[i].isEmailVerified
                      => users'[i].isEmailVerified]_vars
\* A verified account for which a later Register (duplicate) has been answered.
C3Witness ==
  \E p \in Procs : /\ Pending(p) /\ route[p] = "register"
                   /\ res[p].code = "DUPLICATE_ENTRY"
                   /\ \E i \in Ids : /\ Stored(i) /\ users[i].isEmailVerified
                                     /\ users[i].email = doc[p].email

ResumesVerified(p) ==
  /\ pc[p] = "check" /\ pc'[p] # "check"
  /\ doc[p].id # 0 /\ doc[p].isEmailVerified
C6ExpiredVerifyRemoves ==
  /\ \A p \in Procs : Pending(p) /\ Outcome(res[p]) = "LinkExpiredAccountRemoved"
                        => ~Stored(Account(p))
  /\ \A i \in purged : ~Stored(i)

\* C7: Login with a registered email (verified or pending) and a wrong
\* password answers exactly what Login with an unregistered email answers.
C7LoginUniform ==
  \A p \in Procs :
    ( /\ Pending(p) /\ route[p] = "login" /\ doc[p].id # 0
      /\ doc[p].password # BcryptHash(body[p].password) )
    => res[p] = Response(401, "INVALID_CREDENTIALS")

\* C8: Login with the email and the password of an account whose
\* isEmailVerified is FALSE answers EmailNotVerified (403, not the
\* InvalidCredentials answer) and issues no token.
C8LoginUnverified ==
  \A p \in Procs :
    ( /\ Pending(p) /\ route[p] = "login" /\ doc[p].id # 0
      /\ ~doc[p].isEmailVerified
      /\ doc[p].password = BcryptHash(body[p].password) )
    => /\ res[p].status = 403 /\ res[p].code = "EMAIL_NOT_VERIFIED"
       /\ res[p].token = NoToken /\ res[p].user = NoUser
       /\ Outcome(res[p]) # "InvalidCredentials"
C8Witness ==
  \E p \in Procs : /\ Pending(p) /\ route[p] = "login" /\ doc[p].id # 0
                   /\ ~doc[p].isEmailVerified
                   /\ doc[p].password = BcryptHash(body[p].password)

\* C9: once a verification success has been delivered for an account, a Login
\* with the account's email (in any letter case) and its password that the
\* store serves succeeds, with the account's projection and a token carrying
\* the account's id and role.
C9LoginAfterVerify ==
  \A p \in Procs : \A i \in Ids :
    ( /\ Pending(p) /\ route[p] = "login" /\ Outcome(res[p]) # "InternalError"
      /\ verifyOk[i] >= 1
      /\ created[i].email = ToLowerCase(body[p].email)
      /\ created[i].password = BcryptHash(body[p].password) )
    => /\ res[p].code = "LOGIN_SUCCESS"
       /\ res[p].token.id = i /\ res[p].token.role = created[i].role
       /\ res[p].user.id = i /\ res[p].user.email = created[i].email

\* C10: Register requests whose emails are equal after case folding, however
\* they interleave: the store never holds two accounts with that email; a
\* success answer means the request's account is stored, the only one with
\* the email; a DuplicateEntry answer means the request added nothing and
\* another request's account holds the email (or the studentId).
C10RegisterRace ==
  /\ \A i, j \in Ids : Stored(i) /\ Stored(j) /\ users[i].email = users[j].email => i = j
  /\ \A p \in Procs :
       Pending(p) /\ route[p] = "register" =>
         /\ Outcome(res[p]) = "Success" =>
              /\ Stored(res[p].user.id)
              /\ users[res[p].user.id].email = ToLowerCase(body[p].email)
              /\ mail[p].uid = res[p].user.id
         /\ Outcome(res[p]) = "DuplicateEntry" =>
              /\ mail[p] = NoMail
              /\ \E i \in Ids :
                   /\ Stored(i)
                   /\ \/ users[i].email = ToLowerCase(body[p].email)
                      \/ users[i].studentId # <<>> /\ users[i].studentId = doc[p].studentId
         /\ Outcome(res[p]) \in {"Success", "DuplicateEntry", "InternalError"}
              <=> doc[p].email # <<>>
\* Two Register requests with emails that differ in letter case only were in
\* flight together: one has been answered success while the other, validated,
\* still awaits its insert.
C10Witness ==
  \E p, q \in Procs :
    /\ Pending(p) /\ route[p] = "register" /\ Outcome(res[p]) = "Success"
    /\ pc[q] = "create"
    /\ body[p].email # body[q].email
    /\ ToLowerCase(body[p].email) = ToLowerCase(body[q].email)

\* Two texts are equal ignoring letter case, compared letter by letter.
EqualIgnoringCase(a, b) ==
  /\ Len(a) = Len(b)
  /\ \A i \in DOMAIN a :
       \/ a[i] = b[i]
       \/ \E k \in DOMAIN UpperChars : {a[i], b[i]} = {UpperChars[k], LowerChars[k]}
\* A Register request that passed validation has been answered by its insert,
\* the store having served it.
RegisterServed(p) ==
  /\ Pending(p) /\ route[p] = "register"
  /\ doc[p].email # <<>>
  /\ thrown[p] # "StoreError"
\* The Register request of p runs its insert in this step.
RegisterInserts(p) == pc[p] = "create" /\ pc'[p] = "done"

\* C11: no two stored accounts, verified or not, have emails that are equal
\* ignoring letter case; a Register whose email equals, ignoring case, the email
\* of an account stored by another request is answered DuplicateEntry (409)
\* naming the field email.
C11EmailUniqueIgnoringCase ==
  /\ \A i, j \in Ids :
       Stored(i) /\ Stored(j) /\ EqualIgnoringCase(users[i].email, users[j].email)
         => i = j
  /\ \A p \in Procs :
       ( /\ RegisterServed(p)
         /\ \E i \in Ids : /\ Stored(i) /\ i # mail[p].uid
                           /\ EqualIgnoringCase(users[i].email, body[p].email) )
       => res[p] = [Response(409, "DUPLICATE_ENTRY") EXCEPT !.field = "email"]
\* A Register was refused for an email that differs from a stored account's
\* email in letter case only.
C11Witness ==
  \E p \in Procs :
    /\ RegisterServed(p) /\ res[p].code = "DUPLICATE_ENTRY" /\ res[p].field = "email"
    /\ \E i \in Ids : /\ Stored(i) /\ users[i].email # body[p].email
                      /\ EqualIgnoringCase(users[i].email, body[p].email)

\* C12: no two stored accounts carry the same studentId; a Register, served by
\* the store, whose student email resolves to a studentId that a stored account
\* holds is answered DuplicateEntry, and its step adds no account.
C12StudentIdUnique ==
  /\ [](\A i, j \in Ids :
          /\ Stored(i) /\ Stored(j)
          /\ users[i].studentId # <<>> /\ users[i].studentId = users[j].studentId
          => i = j)
  /\ [][\A p \in Procs :
          ( /\ RegisterInserts(p) /\ thrown'[p] # "StoreError"
            /\ doc[p].studentId # <<>>
            /\ \E i \in Ids : Stored(i) /\ users[i].studentId = doc[p].studentId )
          => /\ Outcome(res'[p]) = "DuplicateEntry"
             /\ users' = users /\ nextId' = nextId /\ created' = created]_vars
\* A Register was refused on the field studentId: another account, with a
\* different email, holds the id its email resolves to.
C12Witness ==
  \E p \in Procs :
    /\ RegisterServed(p) /\ res[p].code = "DUPLICATE_ENTRY" /\ res[p].field = "studentId"
    /\ \E i \in Ids : /\ Stored(i) /\ users[i].studentId = doc[p].studentId
                      /\ users[i].email # doc[p].email

\* C13: when the store rejects the insert of a Register with a duplicate-key
\* error, the answer is DuplicateEntry (409) carrying the field of the violated
\* index, never InternalError; no account is added and no verification message
\* is dispatched.  An insert the store serves raises that error exactly when an
\* account holds the email or the studentId.
C13DuplicateKeyRemapped ==
  [][\A p \in Procs : RegisterInserts(p) =>
       /\ thrown'[p] = "E11000" =>
            /\ res'[p].status = 409 /\ res'[p].code = "DUPLICATE_ENTRY"
            /\ Outcome(res'[p]) # "InternalError"
            /\ res'[p].field \in {"email", "studentId"}
            /\ \E i \in Ids : Stored(i) /\ users[i][res'[p].field] = doc[p][res'[p].field]
            /\ users' = users /\ nextId' = nextId /\ created' = created
            /\ mail'[p] = NoMail
       /\ thrown'[p] # "StoreError" =>
            ( thrown'[p] = "E11000" <=>
                \E i \in Ids : /\ Stored(i)
                               /\ \/ users[i].email = doc[p].email
                                  \/ /\ doc[p].studentId # <<>>
                                     /\ users[i].studentId = doc[p].studentId )]_vars
\* The store has rejected an insert with a duplicate-key error.
C13Witness ==
  \E p \in Procs : /\ Pending(p) /\ route[p] = "register" /\ thrown[p] = "E11000"
                   /\ res[p].code = "DUPLICATE_ENTRY"

\* The request body fails one of the checks the handler makes before
\* User.create.
InvalidRegisterBody(b) ==
  \/ b.fullName = <<>> \/ b.email = <<>> \/ b.password = <<>> \/ b.confirmPassword = <<>>
  \/ b.password # b.confirmPassword
  \/ ~validatePasswordStrength(b.password).isStrong
  \/ ~extractUserDataFromEmail(ToLowerCase(b.email)).ok
\* C14: a Register whose body has a missing field, a password mismatch, a weak
\* password or an email that does not resolve is answered in its first step,
\* before any store operation, with MissingFields, PasswordMismatch,
\* WeakPassword or InvalidEmailFormat; the store is unchanged and no
\* verification message is dispatched.  Any other body goes on to the insert.
C14ValidationBeforeStore ==
  [][\A p \in Procs :
       pc[p] = "ready" /\ route'[p] = "register" =>
         IF InvalidRegisterBody(body'[p])
         THEN /\ pc'[p] = "done"
              /\ Outcome(res'[p]) \in {"MissingFields", "PasswordMismatch",
                                       "WeakPassword", "InvalidEmailFormat"}
              /\ users' = users /\ nextId' = nextId /\ created' = created
              /\ mail' = mail /\ mail'[p] = NoMail
              /\ doc'[p] = NoUser
         ELSE pc'[p] = "create" /\ users' = users]_vars
\* A Register was refused for its email while an account is stored.
C14Witness ==
  \E p \in Procs : /\ Pending(p) /\ route[p] = "register"
                   /\ Outcome(res[p]) = "InvalidEmailFormat"
                   /\ \E i \in Ids : Stored(i)

\* C15: when the dispatch of the verification message fails after the insert,
\* Register answers success (201) all the same, and the account is stored as it
\* was inserted, pending.
C15MailFailureSwallowed ==
  \A p \in Procs :
    ( Pending(p) /\ route[p] = "register" /\ mail[p].uid # 0 /\ ~mail[p].sent )
    => /\ res[p].status = 201 /\ Outcome(res[p]) = "Success"
       /\ res[p].user.id = mail[p].uid
       /\ Stored(mail[p].uid)
       /\ users[mail[p].uid] = created[mail[p].uid]
       /\ ~users[mail[p].uid].isEmailVerified
\* sendMail has rejected for an account just inserted.
C15Witness ==
  \E p \in Procs : /\ Pending(p) /\ route[p] = "register"
                   /\ mail[p].uid # 0 /\ ~mail[p].sent /\ Stored(mail[p].uid)

\* C16: when a store operation of a request fails with anything but a
\* duplicate-key conflict, the request is answered InternalError and the step
\* leaves the stored state as it was.
C16StoreFailureIsInternalError ==
  [][\A p \in Procs :
       thrown'[p] \in {"StoreError", "DocumentNotFoundError"} /\ thrown[p] = ""
         => Outcome(res'[p]) = "InternalError" /\ users' = users]_vars

\* The address's domain and faculty token, lower-cased, are entries of the
\* directory.
Recognized(a, U) ==
  /\ ToLowerCase(a.dom) \in DOMAIN U
  /\ ToLowerCase(a.sub) \in DOMAIN U[ToLowerCase(a.dom)].subdomains
\* The local part is n digits.
DigitsOfLength(l, n) == Len(l) = n /\ \A i \in DOMAIN l : l[i] \in DigitChars

\* C17: under the directory the program ships, for a student-marked address of
\* a recognized faculty and domain the resolver returns as studentId characters
\* 3 to 9 of a local part of exactly 9 digits, the local part itself when it is
\* exactly 7 digits, and otherwise throws MalformedStudentPrefix and returns no
\* id.
C17StudentIdFromPrefix ==
  ( /\ resolved.called /\ directory = Universities
    /\ address.marker # <<>> /\ Recognized(address, directory) )
  => LET l == address.local
         d == resolved.emailData
     IN IF DigitsOfLength(l, 9)
        THEN d.ok /\ d.studentId = <<l[3], l[4], l[5], l[6], l[7], l[8], l[9]>>
        ELSE IF DigitsOfLength(l, 7)
        THEN d.ok /\ d.studentId = l
        ELSE ~d.ok /\ d.error = "MalformedStudentPrefix" /\ d.studentId = <<>>
\* The resolver has returned the id 4567890 for 234567890@std.<fac>.cu.edu.eg.
C17Witness ==
  /\ resolved.called /\ directory = Universities /\ address.marker # <<>>
  /\ address.local = <<"2","3","4","5","6","7","8","9","0">>
  /\ resolved.emailData.studentId = <<"4","5","6","7","8","9","0">>

\* C18: whenever the resolver returns, the role follows the std. marker alone:
\* with the marker role student and a studentId of 7 digits, without it role
\* instructor and no studentId; and every stored account has a studentId if and
\* only if its role is student.
C18RoleFromMarker ==
  /\ resolved.called /\ resolved.emailData.ok =>
       LET d == resolved.emailData
       IN IF address.marker # <<>>
          THEN d.role = "student" /\ DigitsOfLength(d.studentId, 7)
          ELSE d.role = "instructor" /\ d.studentId = <<>>
  /\ \A i \in Ids : Stored(i) =>
       /\ users[i].role \in {"student", "instructor"}
       /\ users[i].studentId # <<>> <=> users[i].role = "student"
\* An instructor's address has been resolved and its account stored.
C18Witness ==
  /\ resolved.called /\ resolved.emailData.ok /\ address.marker = <<>>
  /\ \E i \in Ids : Stored(i) /\ users[i].role = "instructor"
                               /\ users[i].studentId = <<>>

\* C19: under the directory the program ships, the resolver fails with
\* UnsupportedUniversity for an address whose domain is not in the directory,
\* and with UnsupportedFaculty for an address of a known domain whose faculty
\* token is not one of that domain's keys; no such address resolves.
C19UnknownDomainOrFaculty ==
  ( resolved.called /\ directory = Universities ) =>
    LET d    == resolved.emailData
        ldom == ToLowerCase(address.dom)
        lsub == ToLowerCase(address.sub)
    IN /\ ldom \notin DOMAIN directory =>
            ~d.ok /\ d.error = "UnsupportedUniversity"
       /\ ( ldom \in DOMAIN directory /\ lsub \notin DOMAIN directory[ldom].subdomains ) =>
            ~d.ok /\ d.error = "UnsupportedFaculty"

\* C20: whatever the directory holds, an address whose domain and faculty
\* token are entries of it (and whose local part suits its role) resolves to
\* that entry's university name and faculty name.
C20DirectoryDriven ==
  ( /\ resolved.called /\ Recognized(address, directory)
    /\ \/ address.marker = <<>>
       \/ DigitsOfLength(address.local, 9) \/ DigitsOfLength(address.local, 7) )
  => LET d    == resolved.emailData
         ldom == ToLowerCase(address.dom)
         lsub == ToLowerCase(address.sub)
     IN /\ d.ok
        /\ d.university = directory[ldom].name
        /\ d.faculty = directory[ldom].subdomains[lsub]

\* The four requirements of the policy, read off the password.
PolicyRequirements(pw) ==
  [length     |-> Len(pw) >= 6,
   hasLetter  |-> \E i \in DOMAIN pw : pw[i] \in Letters,
   hasDigit   |-> \E i \in DOMAIN pw : pw[i] \in DigitChars,
   hasSpecial |-> \E i \in DOMAIN pw : pw[i] \in SpecialChars]
MeetsPolicy(pw) ==
  /\ PolicyRequirements(pw).length /\ PolicyRequirements(pw).hasLetter
  /\ PolicyRequirements(pw).hasDigit /\ PolicyRequirements(pw).hasSpecial
\* C21: validatePasswordStrength returns isStrong true if and only if the
\* password has at least 6 characters, a letter, a digit and a character of the
\* symbol set, and returns the four flags whether or not the password passes;
\* a Register with all fields present and a matching confirmation answers
\* WeakPassword, carrying the four flags, exactly when isStrong is false.
C21PasswordPolicy ==
  /\ strength.called =>
       /\ strength.result.isStrong <=> MeetsPolicy(form.password)
       /\ strength.result.requirements = PolicyRequirements(form.password)
  /\ \A p \in Procs :
       ( /\ Pending(p) /\ route[p] = "register"
         /\ body[p].fullName # <<>> /\ body[p].email # <<>>
         /\ body[p].password # <<>> /\ body[p].confirmPassword = body[p].password )
       => /\ Outcome(res[p]) = "WeakPassword" <=> ~strength.result.isStrong
          /\ Outcome(res[p]) = "WeakPassword" =>
               /\ res[p].status = 400
               /\ res[p].requirements =
                    << [minLength      |-> Len(body[p].password) >= 6,
                        hasLetters     |-> PolicyRequirements(body[p].password).hasLetter,
                        hasNumbers     |-> PolicyRequirements(body[p].password).hasDigit,
                        hasSpecialChar |-> PolicyRequirements(body[p].password).hasSpecial] >>
\* A Register was refused for a password of six characters that lacks only a
\* symbol of the set.
C21Witness ==
  \E p \in Procs :
    /\ Pending(p) /\ route[p] = "register" /\ Outcome(res[p]) = "WeakPassword"
    /\ strength.called /\ Len(form.password) >= 6
    /\ strength.result.requirements =
         [length |-> TRUE, hasLetter |-> TRUE, hasDigit |-> TRUE, hasSpecial |-> FALSE]

\* C24: GET /me with a token the server signed, the store serving the request:
\* when the account named by the token is stored, the answer is the projection
\* of the account as stored; when it is not, the answer is NotFound.
C24WhoAmI ==
  \A p \in Procs :
    ( /\ Pending(p) /\ route[p] = "me" /\ body[p].token \in Ids
      /\ thrown[p] = "" )
    => IF Stored(body[p].token)
       THEN /\ res[p].status = 200 /\ Outcome(res[p]) = "Success"
            /\ res[p].user = [users[body[p].token] EXCEPT !.password = <<>>, !.createdAt = 0]
       ELSE /\ Outcome(res[p]) = "NotFound"
            /\ res[p].user = NoUser
\* GET /me has answered with the projection of a verified account.
C24Witness ==
  \E p \in Procs :
    /\ Pending(p) /\ route[p] = "me" /\ res[p].code = "AUTH_VERIFIED"
    /\ res[p].user.id = body[p].token /\ res[p].user.isEmailVerified
\* GET /me has answered NotFound for a signed token whose account is gone.
C24GoneWitness ==
  \E p \in Procs :
    /\ Pending(p) /\ route[p] = "me" /\ body[p].token \in Ids
    /\ Outcome(res[p]) = "NotFound"

\* The title rule as the claim words it: "Dr. " before a name that does not
\* start with "dr." in any letter case.
TitleRule(n) ==
  IF Len(n) >= 3 /\ ToLowerCase(SubSeq(n, 1, 3)) = <<"d","r",".">>
  THEN n ELSE <<"D","r","."," ">> \o n
\* Blanks removed from both ends of a name.
RECURSIVE Stripped(_)
Stripped(n) ==
  IF n # <<>> /\ n[1] = " " THEN Stripped(SubSeq(n, 2, Len(n)))
  ELSE IF n # <<>> /\ n[Len(n)] = " " THEN Stripped(SubSeq(n, 1, Len(n) - 1))
  ELSE n
\* C22 as stated: the stored fullName of an instructor is the submitted name
\* under the title rule, exactly; the rule applied to the stored name leaves it
\* as it is; the stored fullName of a student has nothing put before it.
C22DrPrefixExact ==
  \A i \in Ids : Stored(i) =>
    IF users[i].role = "instructor"
    THEN /\ users[i].fullName = TitleRule(form.fullName)
         /\ TitleRule(users[i].fullName) = users[i].fullName
    ELSE users[i].fullName = form.fullName
\* C22 amended: the stored fullName of an instructor is the submitted name
\* under the title rule with the blanks at both ends removed; the rule applied
\* to the stored name leaves it as it is; the stored fullName of a student is
\* the submitted name with the blanks at both ends removed, never prefixed.
C22DrPrefixTrimmed ==
  \A i \in Ids : Stored(i) =>
    IF users[i].role = "instructor"
    THEN /\ users[i].fullName = Stripped(TitleRule(form.fullName))
         /\ TitleRule(users[i].fullName) = users[i].fullName
    ELSE users[i].fullName = Stripped(form.fullName)
\* An instructor who submitted "Ali " with a trailing blank is stored as
\* "Dr. Ali".
C22Witness ==
  \E i \in Ids :
    /\ Stored(i) /\ users[i].role = "instructor"
    /\ form.fullName = <<"A","l","i"," ">>
    /\ users[i].fullName = <<"D","r","."," ","A","l","i">>

\* The outcome of the first of Register's checks that a body fails, "" when it
\* passes all four.
FirstFailure(b) ==
  IF b.fullName = <<>> \/ b.email = <<>> \/ b.password = <<>> \/ b.confirmPassword = <<>>
  THEN "MissingFields"
  ELSE IF b.password # b.confirmPassword THEN "PasswordMismatch"
  ELSE IF ~MeetsPolicy(b.password) THEN "WeakPassword"
  ELSE IF ~extractUserDataFromEmail(ToLowerCase(b.email)).ok THEN "InvalidEmailFormat"
  ELSE ""
\* C28: Register reports the first check that fails, in the order
\* MissingFields, PasswordMismatch, WeakPassword, InvalidEmailFormat; only a
\* body that passes the four reaches the insert, whose answers are success,
\* DuplicateEntry or InternalError: a weak password with an email that does not
\* resolve reports WeakPassword, and such an email never reports
\* DuplicateEntry.
C28CheckOrder ==
  \A p \in Procs :
    Pending(p) /\ route[p] = "register" =>
      /\ FirstFailure(body[p]) # "" =>
           /\ Outcome(res[p]) = FirstFailure(body[p])
           /\ thrown[p] = "" /\ doc[p] = NoUser
      /\ FirstFailure(body[p]) = "" =>
           Outcome(res[p]) \in {"Success", "DuplicateEntry", "InternalError"}
      /\ ~extractUserDataFromEmail(ToLowerCase(body[p].email)).ok =>
           Outcome(res[p]) # "DuplicateEntry"
\* A Register with a weak password and an email of an unlisted faculty was
\* answered WeakPassword.
C28Witness ==
  \E p \in Procs :
    /\ Pending(p) /\ route[p] = "register" /\ Outcome(res[p]) = "WeakPassword"
    /\ body[p].password = body[p].confirmPassword
    /\ ~extractUserDataFromEmail(ToLowerCase(body[p].email)).ok

\* The account acc holds the email, or the studentId, that the Register of p
\* asks for.
Reuses(acc, p) ==
  \/ acc.email = doc[p].email
  \/ doc[p].studentId # <<>> /\ acc.studentId = doc[p].studentId
\* The Register of p, served by the store, asks for the email of an account
\* for which LinkExpiredAccountRemoved was delivered, and every account ever
\* created by another request with its email or studentId was so removed.
ReRegisters(p) ==
  /\ RegisterServed(p)
  /\ \E i \in purged : created[i].email = doc[p].email
  /\ \A i \in Ids : created[i].id # 0 /\ i # mail[p].uid /\ Reuses(created[i], p)
                      => i \in purged
\* C23: after a Verify has answered LinkExpiredAccountRemoved for an expired
\* pending account, a Register with the same email (and studentId) is not
\* answered DuplicateEntry: it succeeds and stores a fresh pending account
\* under a new id, created at the time of the insert.
C23ReRegisterAfterPurge ==
  \A p \in Procs :
    ReRegisters(p) =>
      /\ Outcome(res[p]) = "Success"
      /\ mail[p].uid \notin purged
      /\ Stored(mail[p].uid)
      /\ ~users[mail[p].uid].isEmailVerified
      /\ users[mail[p].uid].createdAt = now
      /\ \A i \in purged : users[mail[p].uid].createdAt > created[i].createdAt
\* The same, for the purges in which deleteOne was served.
C23Probe ==
  \A p \in Procs :
    ReRegisters(p) /\ (\A i \in purged : ~Stored(i)) =>
      /\ Outcome(res[p]) = "Success"
      /\ mail[p].uid \notin purged
      /\ Stored(mail[p].uid)
      /\ ~users[mail[p].uid].isEmailVerified
      /\ users[mail[p].uid].createdAt = now
      /\ \A i \in purged : users[mail[p].uid].createdAt > created[i].createdAt
\* A Register has succeeded for the email of a removed account.
C23ProbeWitness ==
  \E p \in Procs : ReRegisters(p) /\ Outcome(res[p]) = "Success"

\* C25: a Register that answers success has added exactly one account, under
\* an id not stored before, pending and with createdAt the time of the insert;
\* one verification message is handed over by the request, addressed to the
\* case-folded email and carrying the account's id; the answer carries no
\* token.  A Register that answers anything else adds no account and hands
\* over no message.
C25RegisterSuccessEffects ==
  [][\A p \in Procs : RegisterInserts(p) =>
       /\ res'[p].token = NoToken
       /\ \A q \in Procs \ {p} : mail'[q] = mail[q]
       /\ IF Outcome(res'[p]) = "Success"
          THEN \E i \in Ids :
                 /\ ~Stored(i) /\ created[i].id = 0
                 /\ \A j \in Ids \ {i} : users'[j] = users[j]
                 /\ users'[i].id = i
                 /\ ~users'[i].isEmailVerified
                 /\ users'[i].createdAt = now
                 /\ users'[i].email = ToLowerCase(body[p].email)
                 /\ mail[p] = NoMail
                 /\ mail'[p].to = ToLowerCase(body[p].email)
                 /\ mail'[p].uid = i
                 /\ res'[p].user.id = i
          ELSE users' = users /\ mail'[p] = NoMail]_vars
\* A Register has succeeded, after the clock has advanced, for an email typed
\* with a capital letter, while another account is stored.
C25Witness ==
  \E p \in Procs :
    /\ Pending(p) /\ route[p] = "register" /\ Outcome(res[p]) = "Success"
    /\ now > 0
    /\ users[mail[p].uid].createdAt = now
    /\ \E i \in Ids : Stored(i) /\ i # mail[p].uid

\* C26: every stored account has the role, email, studentId and createdAt it
\* was inserted with, whatever requests have run since.
C26IdentityImmutable ==
  \A i \in Ids :
    Stored(i) =>
      /\ users[i].role = created[i].role
      /\ users[i].email = created[i].email
      /\ users[i].studentId = created[i].studentId
      /\ users[i].createdAt = created[i].createdAt
\* GET /me has answered for a student's account that was verified and for
\* which a token was issued, later than the account's creation.
C26Witness ==
  \E p \in Procs :
    /\ Pending(p) /\ route[p] = "me" /\ res[p].code = "AUTH_VERIFIED"
    /\ Stored(doc[p].id) /\ users[doc[p].id].isEmailVerified
    /\ users[doc[p].id].studentId # <<>>
    /\ verifyOk[doc[p].id] >= 1
    /\ now > users[doc[p].id].createdAt

\* The verification handler of p resumes with a pending account.
ResumesPending(p) ==
  /\ pc[p] = "check" /\ pc'[p] # "check"
  /\ doc[p].id # 0 /\ ~doc[p].isEmailVerified
\* C27: the expiry test is strict.  A verification handler that finds a
\* pending account goes on to save when the time since createdAt, read at that
\* moment, is at most 24 hours (24 hours included) and to deleteOne when it is
\* more; the save, served by the store, verifies the account and answers
\* success, and the deleteOne, served, removes it; the answer after deleteOne
\* is LinkExpiredAccountRemoved.  An account becomes verified only in the save
\* of a request that took the first branch.
C27StrictExpiry ==
  [][/\ \A p \in Procs :
          /\ ResumesPending(p) =>
               pc'[p] = IF now - doc[p].createdAt <= 24 * 60 * 60 * 1000
                        THEN "save" ELSE "deleteOne"
          /\ pc[p] = "save" /\ pc'[p] = "done" /\ thrown'[p] = "" =>
               /\ Outcome(res'[p]) = "Success"
               /\ users'[doc[p].id].isEmailVerified
          /\ pc[p] = "deleteOne" /\ pc'[p] = "done" =>
               /\ Outcome(res'[p]) = "LinkExpiredAccountRemoved"
               /\ thrown'[p] = "" => users'[doc[p].id].id = 0
               /\ \A i \in Ids : users'[i].isEmailVerified => users[i].isEmailVerified
     /\ \A i \in Ids :
          users'[i].isEmailVerified /\ ~users[i].isEmailVerified =>
            \E p \in Procs : pc[p] = "save" /\ pc'[p] = "done" /\ doc[p].id = i
    ]_vars
\* A verification has succeeded with the clock at exactly 24 hours after the
\* account's creation.
C27Witness ==
  \E p \in Procs :
    /\ Pending(p) /\ IsVerifyRoute(route[p]) /\ Outcome(res[p]) = "Success"
    /\ ~doc[p].isEmailVerified
    /\ now - doc[p].createdAt = 24 * 60 * 60 * 1000
\* A verification has removed an account 24 hours and a millisecond old.
C27ExpiredWitness ==
  \E p \in Procs :
    /\ Pending(p) /\ Outcome(res[p]) = "LinkExpiredAccountRemoved"
    /\ thrown[p] = "" /\ ~Stored(doc[p].id)
    /\ now - doc[p].createdAt = 24 * 60 * 60 * 1000 + 1

\* C29: an instructor's account is stored without a studentId and a student's
\* with one; a Register of an instructor that the store serves is answered
\* DuplicateEntry only on the field email, and only when another request's
\* account holds its email: instructors with distinct emails all register.
C29InstructorsWithoutStudentId ==
  /\ \A i \in Ids :
       Stored(i) => (users[i].studentId = <<>> <=> users[i].role = "instructor")
  /\ \A p \in Procs :
       RegisterServed(p) /\ doc[p].role = "instructor" =>
         /\ doc[p].studentId = <<>>
         /\ ~(res[p].code = "DUPLICATE_ENTRY" /\ res[p].field = "studentId")
         /\ IF \E i \in Ids : Stored(i) /\ i # mail[p].uid /\ users[i].email = doc[p].email
            THEN res[p].code = "DUPLICATE_ENTRY" /\ res[p].field = "email"
            ELSE /\ Outcome(res[p]) = "Success"
                 /\ Stored(mail[p].uid)
                 /\ users[mail[p].uid].studentId = <<>>
\* A second instructor has registered while the first one's account is stored.
C29Witness ==
  \E p \in Procs :
    /\ RegisterServed(p) /\ doc[p].role = "instructor" /\ Outcome(res[p]) = "Success"
    /\ \E i \in Ids : /\ Stored(i) /\ i # mail[p].uid
                      /\ users[i].role = "instructor"
                      /\ users[i].email # users[mail[p].uid].email

\* A token is issued only for an account that is stored and verified at that
\* moment, and was not removed.
C30IssuedForStoredVerified ==
  \A p \in Procs :
    Pending(p) /\ res[p].token.id # 0 =>
      /\ Stored(res[p].token.id)
      /\ users[res[p].token.id].isEmailVerified
      /\ res[p].token.id \notin purged
\* C30: a token is issued only for an account that is stored and verified at
\* the moment of issuance, never for a pending or a removed one, by no route
\* and under no interleaving; and a verification request, which presents an
\* account id and no password, obtains no token for an account that it finds
\* verified already.
C30TokenOnlyForVerified ==
  /\ C30IssuedForStoredVerified
  /\ \A p \in Procs :
       Pending(p) /\ IsVerifyRoute(route[p]) /\ doc[p].id # 0 /\ doc[p].isEmailVerified
         => res[p].token = NoToken

\* A verification request answers in this step.
VerifyAnswers(p) ==
  /\ IsVerifyRoute(route[p]) /\ pc[p] # "done" /\ pc'[p] = "done"
\* A verification request answered NotFound or AlreadyVerified has performed
\* no write and no delete: it answers on resuming from findById, its only
\* store operation, and its step leaves the store as it was.
C31NoWriteOnRefusal ==
  [][\A p \in Procs :
       VerifyAnswers(p) /\ Outcome(res'[p]) \in {"NotFound", "AlreadyVerified"}
         => /\ pc[p] = "check"
            /\ users' = users /\ nextId' = nextId /\ created' = created
            /\ mail' = mail]_vars
\* C31: a verification request, served by the store, for a uid that matches
\* no stored account is answered NotFound, the store unchanged; and every
\* verification request answered NotFound or AlreadyVerified has performed no
\* write and no delete.
C31VerifyUnknownId ==
  /\ [](\A p \in Procs :
          ( /\ Pending(p) /\ IsVerifyRoute(route[p])
            /\ body[p].uid # 0 /\ doc[p].id = 0
            /\ thrown[p] # "StoreError" )
          => Outcome(res[p]) = "NotFound")
  /\ C31NoWriteOnRefusal
\* The same for the uids that are texts of ObjectIds.
C31VerifyUnknownObjectId ==
  /\ [](\A p \in Procs :
          ( /\ Pending(p) /\ IsVerifyRoute(route[p])
            /\ body[p].uid \in Ids /\ doc[p].id = 0
            /\ thrown[p] # "StoreError" )
          => Outcome(res[p]) = "NotFound")
  /\ C31NoWriteOnRefusal
\* A verification request for the id of a removed account was answered
\* NotFound while another account is stored.
C31ObjectIdWitness ==
  \E p \in Procs :
    /\ Pending(p) /\ IsVerifyRoute(route[p]) /\ Outcome(res[p]) = "NotFound"
    /\ body[p].uid \in Ids /\ created[body[p].uid].id # 0
    /\ \E i \in Ids : Stored(i)

\* A step of a Login or GET /me request of p.
ReadOnlyStep(p) ==
  /\ pc'[p] # pc[p]
  /\ route[p] \in {"login", "me"} \/ route'[p] \in {"login", "me"}
\* C32: no step of a Login or of a GET /me request, whatever it answers,
\* changes the store; a Login that finds a pending account older than 24 hours
\* answers EmailNotVerified and leaves it stored as it was; an account leaves
\* the store only in the deleteOne of a verification request.
C32LoginAndMeReadOnly ==
  /\ [][\A p \in Procs : ReadOnlyStep(p) =>
          users' = users /\ nextId' = nextId /\ created' = created]_vars
  /\ [](\A p \in Procs :
          ( /\ Pending(p) /\ route[p] = "login"
            /\ doc[p].id # 0 /\ ~doc[p].isEmailVerified
            /\ now - doc[p].createdAt > 24 * 60 * 60 * 1000 )
          => /\ Outcome(res[p]) = "EmailNotVerified"
             /\ users[doc[p].id] = doc[p]
             /\ users[doc[p].id] = created[doc[p].id])
  /\ [][\A i \in Ids : Stored(i) /\ users'[i].id = 0 =>
          \E p \in Procs : /\ IsVerifyRoute(route[p])
                           /\ pc[p] = "deleteOne" /\ pc'[p] = "done"
                           /\ doc[p].id = i]_vars
\* A Login has been answered for a pending account older than 24 hours.
C32Witness ==
  \E p \in Procs :
    /\ Pending(p) /\ route[p] = "login"
    /\ doc[p].id # 0 /\ ~doc[p].isEmailVerified
    /\ now - doc[p].createdAt > 24 * 60 * 60 * 1000
    /\ Stored(doc[p].id)

\* The fields of an account that a response may carry.
PublicFields ==
  {"id", "fullName", "email", "role", "university", "college", "studentId",
   "isEmailVerified"}
\* C33: no response of any route, successful or failed, carries the stored
\* password hash: the user object of every response has only fields among id,
\* fullName, email, role, university, college, studentId and isEmailVerified
\* set, the token's claims are id, role and email, and no text of the answer
\* equals the password hash of a stored account.
C33NoPasswordInResponses ==
  \A p \in Procs :
    Pending(p) =>
      /\ \A k \in DOMAIN NoUser \ PublicFields : res[p].user[k] = NoUser[k]
      /\ res[p].user.password = <<>>
      /\ DOMAIN res[p].token = {"id", "role", "email"}
      /\ \A i \in Ids :
           Stored(i) =>
             /\ res[p].token.email # users[i].password
             /\ \A k \in {"fullName", "email", "studentId"} :
                  res[p].user[k] # users[i].password
\* A Login has succeeded for a stored account (whose password hash is stored)
\* and its answer carries the account's projection.
C33Witness ==
  \E p \in Procs :
    /\ Pending(p) /\ route[p] = "login" /\ res[p].code = "LOGIN_SUCCESS"
    /\ res[p].user.id = doc[p].id
    /\ Stored(doc[p].id) /\ users[doc[p].id].password # <<>>
====
